---- MODULE Spec2Model ----
(***************************************************************************)
(* Model of the two Pinia stores of the tree-listing application:          *)
(*   useLocationStore (locatable, location, locate_user) and               *)
(*   useTreeStore (trees, loading, fetch_trees, closest_tree).             *)
(* The JavaScript run-time is one event loop: a macrotask (the view's      *)
(* mount, an HTTP response event, a geolocation callback) runs to          *)
(* completion together with the promise reactions it queues; only Vue's    *)
(* render flush, which reads closest_tree, sits between the .then and the  *)
(* .finally reaction of a successful fetch.                                *)
(***************************************************************************)
EXTENDS Integers, Sequences, FiniteSets, TLC

\* ------------------------------------------------------------------ bounds
MaxCoord == 1       \* coordinates of trees and device fixes lie in 0..MaxCoord
MaxTrees == 2       \* longest response payload
MaxFetches == 2     \* invocations of fetch_trees in one run
MaxLocates == 2     \* invocations of locate_user in one run
MaxScan == 3        \* longest array closest_tree is applied to on its own

VARIABLES
    geolocation,    \* navigator.geolocation is present on this device
    locatable,      \* ref(false)
    location,       \* ref({latitude: 51, longitude: 3})
    trees,          \* ref([] as Tree[])
    loading,        \* ref(false)
    fetched,        \* number of fetch_trees invocations so far
    requests,       \* Trees.all() promises that have not settled yet
    chain,          \* the promise chain being run: [pc, data]
    rejected,       \* chains that ended in a rejected promise
    lastResponse,   \* history: the array of the response whose .then ran last
    located,        \* number of locate_user invocations so far
    watches,        \* getCurrentPosition requests whose callback has not fired
    reported,       \* history: <<coords>> of the latest success callback, or <<>>
    outcome,        \* history: how the latest acquisition to end has ended
    cache,          \* value held by the computed ref closest_tree
    dirty,          \* the computed ref must re-evaluate on its next read
    deps            \* refs the last evaluation of closest_tree subscribed to

vars == <<geolocation, locatable, location, trees, loading, fetched, requests,
          chain, rejected, lastResponse, located, watches, reported, outcome,
          cache, dirty, deps>>

locationVars == <<geolocation, locatable, location, located, watches, reported, outcome>>
treeVars == <<trees, loading, fetched, requests, chain, rejected, lastResponse>>
computedVars == <<cache, deps>>

\* ------------------------------------------------------------------- types
Coords == 0..MaxCoord
Location == [latitude : Coords, longitude : Coords]

\* Tree.id is opaque and unique within one response: the trees of a response
\* are named by their place in it.
TreeIds == <<"A", "B", "C", "D", "E", "F">>

\* interface Tree: id and location; name, description and the urls are
\* carried along untouched by every operation and are left out.
Tree == [id : {TreeIds[i] : i \in 1..Len(TreeIds)}, location : Location]

\* undefined, as returned by closest_tree
Undefined == [id |-> "undefined"]

\* arrays of at most n trees standing at the given places
Arrays(places, n) ==
    UNION {{[i \in 1..k |-> [id |-> TreeIds[i], location |-> at[i]]] :
                at \in [1..k -> places]} : k \in 0..n}

\* response.data.data: what the server may send. The monitored trees stand
\* at two opposite corners of the region, the user anywhere in it.
Sites == {[latitude |-> c, longitude |-> c] : c \in {0, MaxCoord}}
Payloads == Arrays(Sites, MaxTrees)

Idle == [pc |-> "idle", data |-> <<>>]

\* ------------------------------------------------------- reactivity (Vue)
\* A write to a ref notifies its subscribers only when the value changed;
\* a notified computed ref becomes dirty and re-evaluates on its next read.
Triggered(written) == (written \cap deps) # {}

\* ------------------------------------------------------------ closest_tree
RECURSIVE isqrt(_, _, _)
isqrt(x, lo, hi) ==
    IF lo >= hi THEN lo
    ELSE LET mid == (lo + hi + 1) \div 2
         IN  IF mid * mid <= x THEN isqrt(x, mid, hi) ELSE isqrt(x, lo, mid - 1)

\* Math.sqrt, to two decimals in fixed point (the value times 100, rounded
\* down): a rounding square root, strictly increasing on the radicands the
\* bounded coordinates produce.
sqrt(x) == isqrt(x * 10000, 0, IF x * 100 < 46000 THEN x * 100 ELSE 46000)

distance(tree, loc) ==
    LET longDiff == tree.location.longitude - loc.longitude
        latDiff == tree.location.latitude - loc.latitude
    IN  sqrt(longDiff * longDiff + latDiff * latDiff)

distances(ts, loc) == [i \in 1..Len(ts) |-> distance(ts[i], loc)]

\* variant: the current best is replaced on an equal distance too
smallest_onEqual(ds, previousValue, currentValue, currentIndex) ==
    IF currentValue <= ds[previousValue] THEN currentIndex ELSE previousValue

\* the callback of distances.reduce: the index that survives one step
smallest(ds, previousValue, currentValue, currentIndex) ==
    IF currentValue < ds[previousValue] THEN currentIndex ELSE previousValue

RECURSIVE reduce(_, _, _)
reduce(ds, currentIndex, previousValue) ==
    IF currentIndex > Len(ds) THEN previousValue
    ELSE reduce(ds, currentIndex + 1,
                smallest(ds, previousValue, ds[currentIndex], currentIndex))

\* indices are 1-based here: the initial index value 0 of the source is 1
iMin(ds) == reduce(ds, 1, 1)

\* variant: the guard does not look at loading
closest_tree_whileLoading ==
    IF ~locatable \/ Len(trees) = 0
    THEN Undefined
    ELSE trees[iMin(distances(trees, location))]

\* variant: the guard does not look at locatable
closest_tree_unlocated ==
    IF loading \/ Len(trees) = 0
    THEN Undefined
    ELSE trees[iMin(distances(trees, location))]

\* the getter's body, evaluated on the current state of both stores
closest_tree ==
    IF ~locatable \/ loading \/ Len(trees) = 0
    THEN Undefined
    ELSE trees[iMin(distances(trees, location))]

\* variant: only the first ref the guard reads is subscribed to
tracked_firstRead == {"locatable"}

\* variant: the fields of location are not subscribed to
tracked_noCoordinates ==
    IF ~locatable THEN {"locatable"}
    ELSE IF loading THEN {"locatable", "loading"}
    ELSE {"locatable", "loading", "trees"}

\* the refs the getter's body reads, hence subscribes to, on the current state
tracked ==
    IF ~locatable THEN {"locatable"}
    ELSE IF loading THEN {"locatable", "loading"}
    ELSE IF Len(trees) = 0 THEN {"locatable", "loading", "trees"}
    ELSE {"locatable", "loading", "trees", "latitude", "longitude"}

\* what reading treeStore.closest_tree yields in the current state
closest == IF dirty THEN closest_tree ELSE cache

\* ------------------------------------------------------------------- Init
Init ==
    /\ geolocation \in BOOLEAN
    /\ locatable = FALSE
    /\ location = [latitude |-> 51, longitude |-> 3]
    /\ trees = <<>>
    /\ loading = FALSE
    /\ fetched = 0
    /\ requests = 0
    /\ chain = Idle
    /\ rejected = 0
    /\ lastResponse = <<>>
    /\ located = 0
    /\ watches = 0
    /\ reported = <<>>
    /\ outcome = "none"
    /\ cache = Undefined
    /\ dirty = TRUE
    /\ deps = {}

\* no promise reaction is queued: the event loop may start the next macrotask
Quiet == chain.pc = "idle"

\* ------------------------------------------------------------ useTreeStore
\* variant: an invocation while loading issues no second request
fetch_trees_once ==
    /\ Quiet
    /\ fetched < MaxFetches
    /\ fetched' = fetched + 1
    /\ loading' = TRUE
    /\ requests' = IF loading THEN requests ELSE requests + 1
    /\ dirty' = (dirty \/ (~loading /\ Triggered({"loading"})))
    /\ UNCHANGED <<trees, chain, rejected, lastResponse, locationVars, computedVars>>

\* fetch_trees(): loading.value = true; Trees.all() issues the request
fetch_trees ==
    /\ Quiet
    /\ fetched < MaxFetches
    /\ fetched' = fetched + 1
    /\ loading' = TRUE
    /\ requests' = requests + 1
    /\ dirty' = (dirty \/ (~loading /\ Triggered({"loading"})))
    /\ UNCHANGED <<trees, chain, rejected, lastResponse, locationVars, computedVars>>

\* variant: the response is appended to the collection held so far
FetchThen_append(data) ==
    /\ Quiet
    /\ requests > 0
    /\ requests' = requests - 1
    /\ trees' = trees \o data
    /\ chain' = [pc |-> "finally", data |-> data]
    /\ lastResponse' = data
    /\ dirty' = (dirty \/ Triggered({"trees"}))
    /\ UNCHANGED <<loading, fetched, rejected, locationVars, computedVars>>

\* variant: a response does not replace a collection already held
FetchThen_firstWins(data) ==
    /\ Quiet
    /\ requests > 0
    /\ requests' = requests - 1
    /\ trees' = IF Len(trees) > 0 THEN trees ELSE data
    /\ chain' = [pc |-> "finally", data |-> data]
    /\ lastResponse' = data
    /\ dirty' = (dirty \/ Triggered({"trees"}))
    /\ UNCHANGED <<loading, fetched, rejected, locationVars, computedVars>>

\* variant: .then clears the flag and leaves the assignment for later
FetchThen_flagFirst(data) ==
    /\ Quiet
    /\ requests > 0
    /\ requests' = requests - 1
    /\ loading' = FALSE
    /\ chain' = [pc |-> "finally", data |-> data]
    /\ lastResponse' = data
    /\ dirty' = (dirty \/ (loading /\ Triggered({"loading"})))
    /\ UNCHANGED <<trees, fetched, rejected, locationVars, computedVars>>

\* variant: the assignment bypasses the ref and notifies nobody
FetchThen_untracked(data) ==
    /\ Quiet
    /\ requests > 0
    /\ requests' = requests - 1
    /\ trees' = data
    /\ chain' = [pc |-> "finally", data |-> data]
    /\ lastResponse' = data
    /\ UNCHANGED <<loading, fetched, rejected, dirty, locationVars, computedVars>>

\* .then((response) => { trees.value = response.data.data })
FetchThen(data) ==
    /\ Quiet
    /\ requests > 0
    /\ requests' = requests - 1
    /\ trees' = data
    /\ chain' = [pc |-> "finally", data |-> data]
    /\ lastResponse' = data
    /\ dirty' = (dirty \/ Triggered({"trees"}))
    /\ UNCHANGED <<loading, fetched, rejected, locationVars, computedVars>>

\* .finally(() => { loading.value = false }) after the .then callback
FetchFinally ==
    /\ chain.pc = "finally"
    /\ loading' = FALSE
    /\ chain' = Idle
    /\ dirty' = (dirty \/ (loading /\ Triggered({"loading"})))
    /\ UNCHANGED <<trees, fetched, requests, rejected, lastResponse, locationVars, computedVars>>

\* variant: the flag is cleared in .then, which a rejection skips
FetchFail_stillLoading ==
    /\ Quiet
    /\ requests > 0
    /\ requests' = requests - 1
    /\ rejected' = rejected + 1
    /\ UNCHANGED <<trees, loading, fetched, chain, lastResponse, dirty, locationVars, computedVars>>

\* variant: a failed fetch empties the collection
FetchFail_emptied ==
    /\ Quiet
    /\ requests > 0
    /\ requests' = requests - 1
    /\ rejected' = rejected + 1
    /\ loading' = FALSE
    /\ trees' = <<>>
    /\ dirty' = (dirty \/ (loading /\ Triggered({"loading"})) \/ Triggered({"trees"}))
    /\ UNCHANGED <<fetched, chain, lastResponse, locationVars, computedVars>>

\* Trees.all() rejects: .then is skipped, .finally clears the flag and
\* passes the rejection on
FetchFail ==
    /\ Quiet
    /\ requests > 0
    /\ requests' = requests - 1
    /\ rejected' = rejected + 1
    /\ loading' = FALSE
    /\ dirty' = (dirty \/ (loading /\ Triggered({"loading"})))
    /\ UNCHANGED <<trees, fetched, chain, lastResponse, locationVars, computedVars>>

\* -------------------------------------------------------- useLocationStore
\* variant: getCurrentPosition is called whether or not the capability exists
locate_user_unchecked ==
    /\ Quiet
    /\ located < MaxLocates
    /\ located' = located + 1
    /\ watches' = watches + 1
    /\ UNCHANGED <<geolocation, locatable, location, reported, outcome, dirty, treeVars, computedVars>>

\* variant: the flag is set as soon as the request is issued
locate_user_optimistic ==
    /\ Quiet
    /\ located < MaxLocates
    /\ located' = located + 1
    /\ IF ~geolocation
       THEN /\ locatable' = FALSE
            /\ watches' = watches
            /\ outcome' = "unavailable"
            /\ dirty' = (dirty \/ (locatable /\ Triggered({"locatable"})))
       ELSE /\ locatable' = TRUE
            /\ watches' = watches + 1
            /\ outcome' = outcome
            /\ dirty' = (dirty \/ (~locatable /\ Triggered({"locatable"})))
    /\ UNCHANGED <<geolocation, location, reported, treeVars, computedVars>>

\* locate_user(): without navigator.geolocation clear the flag and return,
\* else getCurrentPosition issues one request
locate_user ==
    /\ Quiet
    /\ located < MaxLocates
    /\ located' = located + 1
    /\ IF ~geolocation
       THEN /\ locatable' = FALSE
            /\ watches' = watches
            /\ outcome' = "unavailable"
            /\ dirty' = (dirty \/ (locatable /\ Triggered({"locatable"})))
       ELSE /\ locatable' = locatable
            /\ watches' = watches + 1
            /\ outcome' = outcome
            /\ dirty' = dirty
    /\ UNCHANGED <<geolocation, location, reported, treeVars, computedVars>>

\* variant: the callback stores the latitude only
GeoSuccess_latitudeOnly(coords) ==
    /\ Quiet
    /\ watches > 0
    /\ watches' = watches - 1
    /\ location' = [latitude |-> coords.latitude, longitude |-> location.longitude]
    /\ locatable' = TRUE
    /\ reported' = <<coords>>
    /\ outcome' = "success"
    /\ dirty' = (dirty \/ Triggered(
            (IF location.latitude # coords.latitude THEN {"latitude"} ELSE {})
            \cup (IF ~locatable THEN {"locatable"} ELSE {})))
    /\ UNCHANGED <<geolocation, located, treeVars, computedVars>>

\* the success callback of getCurrentPosition
GeoSuccess(coords) ==
    /\ Quiet
    /\ watches > 0
    /\ watches' = watches - 1
    /\ location' = [latitude |-> coords.latitude, longitude |-> coords.longitude]
    /\ locatable' = TRUE
    /\ reported' = <<coords>>
    /\ outcome' = "success"
    /\ dirty' = (dirty \/ Triggered(
            (IF location.latitude # coords.latitude THEN {"latitude"} ELSE {})
            \cup (IF location.longitude # coords.longitude THEN {"longitude"} ELSE {})
            \cup (IF ~locatable THEN {"locatable"} ELSE {})))
    /\ UNCHANGED <<geolocation, located, treeVars, computedVars>>

\* variant: an error puts the placeholder back
GeoError_reset ==
    /\ Quiet
    /\ watches > 0
    /\ watches' = watches - 1
    /\ locatable' = FALSE
    /\ outcome' = "error"
    /\ location' = [latitude |-> 51, longitude |-> 3]
    /\ dirty' = (dirty \/ (locatable /\ Triggered({"locatable"}))
                      \/ (location.latitude # 51 /\ Triggered({"latitude"}))
                      \/ (location.longitude # 3 /\ Triggered({"longitude"})))
    /\ UNCHANGED <<geolocation, located, reported, treeVars, computedVars>>

\* variant: an error leaves the flag as it is
GeoError_keepsFlag ==
    /\ Quiet
    /\ watches > 0
    /\ watches' = watches - 1
    /\ outcome' = "error"
    /\ UNCHANGED <<geolocation, locatable, location, located, reported, dirty,
                   treeVars, computedVars>>

\* the error callback of getCurrentPosition
GeoError ==
    /\ Quiet
    /\ watches > 0
    /\ watches' = watches - 1
    /\ locatable' = FALSE
    /\ outcome' = "error"
    /\ dirty' = (dirty \/ (locatable /\ Triggered({"locatable"})))
    /\ UNCHANGED <<geolocation, location, located, reported, treeVars, computedVars>>

\* ------------------------------------------------------------------ render
\* variant: the getter puts the collection in another order in place
Render_reorders ==
    /\ dirty
    /\ cache' = closest_tree
    /\ deps' = tracked
    /\ dirty' = FALSE
    /\ trees' = [i \in 1..Len(trees) |-> trees[Len(trees) + 1 - i]]
    /\ UNCHANGED <<locationVars, loading, fetched, requests, chain, rejected, lastResponse>>

\* the template reads treeStore.closest_tree: a dirty computed re-evaluates
Render ==
    /\ dirty
    /\ cache' = closest_tree
    /\ deps' = tracked
    /\ dirty' = FALSE
    /\ UNCHANGED <<locationVars, treeVars>>

Next ==
    \/ fetch_trees
    \/ \E data \in Payloads : FetchThen(data)
    \/ FetchFinally
    \/ FetchFail
    \/ locate_user
    \/ \E coords \in Location : GeoSuccess(coords)
    \/ GeoError
    \/ Render

Spec == Init /\ [][Next]_vars

\* every request settles: the HTTP client answers or fails each request, and
\* the event loop runs every queued promise reaction
FairSpec ==
    /\ Spec
    /\ WF_vars(FetchFinally)
    /\ WF_vars(FetchFail \/ \E data \in Payloads : FetchThen(data))

\* closest_tree on its own: any collection of up to MaxScan trees anywhere in
\* the region, fetched and settled, and any fix of the user
InitClosest ==
    /\ geolocation = TRUE
    /\ locatable = TRUE
    /\ location \in Location
    /\ trees \in Arrays(Location, MaxScan)
    /\ loading = FALSE
    /\ fetched = 1
    /\ requests = 0
    /\ chain = Idle
    /\ rejected = 0
    /\ lastResponse = trees
    /\ located = 1
    /\ watches = 0
    /\ reported = <<location>>
    /\ outcome = "success"
    /\ cache = Undefined
    /\ dirty = TRUE
    /\ deps = {}

NextClosest == Render

SpecClosest == InitClosest /\ [][NextClosest]_vars

TypeOK ==
    /\ geolocation \in BOOLEAN
    /\ locatable \in BOOLEAN
    /\ loading \in BOOLEAN
    /\ trees \in Payloads
    /\ fetched \in 0..MaxFetches
    /\ requests \in 0..MaxFetches
    /\ rejected \in 0..MaxFetches
    /\ located \in 0..MaxLocates
    /\ watches \in 0..MaxLocates
    /\ dirty \in BOOLEAN

\* ================================================================= claims
Placeholder == [latitude |-> 51, longitude |-> 3]

\* fetches started and not settled: the request is out, or its .finally
\* reaction has not run yet
Unsettled == requests + (IF chain.pc = "finally" THEN 1 ELSE 0)

\* the squared planar distance, exact
PlanarSq(tree) ==
    (tree.location.longitude - location.longitude)
        * (tree.location.longitude - location.longitude)
    + (tree.location.latitude - location.latitude)
        * (tree.location.latitude - location.latitude)

\* C1: whenever locatable is false, or loading is true, or the collection is
\* empty, reading closest_tree yields undefined, whatever the other fields hold.
C1_NoResultUnderGuard ==
    (~locatable \/ loading \/ Len(trees) = 0) => closest = Undefined

\* a fetch is running over a non-empty collection of a located user, after an
\* entity had been resolved
C1_Witness ==
    /\ loading /\ locatable /\ Len(trees) > 0
    /\ cache # Undefined
    /\ closest = Undefined

\* C2: for a non-empty collection, not loading, user locatable, closest_tree is
\* an entity at minimal planar distance from the user (the square root is
\* minimal exactly when the sum of squares is), and every entity before it in
\* the collection is strictly farther away.
C2_NearestLeftmost ==
    (locatable /\ ~loading /\ Len(trees) > 0) =>
        \E i \in DOMAIN trees :
            /\ closest = trees[i]
            /\ \A j \in DOMAIN trees :
                /\ PlanarSq(trees[i]) <= PlanarSq(trees[j])
                /\ j < i => PlanarSq(trees[j]) > PlanarSq(trees[i])

\* evaluated on three trees: the first farther away, the second and third tied
C2_Witness ==
    /\ ~dirty
    /\ Len(trees) = 3
    /\ PlanarSq(trees[1]) > PlanarSq(trees[2])
    /\ PlanarSq(trees[2]) = PlanarSq(trees[3])
    /\ cache = trees[2]

\* C3: loading is true if and only if a fetch started by fetch_trees has not
\* yet settled.
C3_LoadingIffUnsettled == loading <=> (Unsettled > 0)

\* C4: when every request settles and fetch_trees is invoked finitely often,
\* loading = true leads to loading = false.
C4_LoadingClears == loading ~> ~loading

\* two fetches overlap
C4_Witness == loading /\ requests = 2

\* C5: a step that invokes fetch_trees ends with loading true and one more
\* request out, also when a fetch is outstanding already; a step that settles a
\* request, by success or by failure, ends with loading false.
C5_Step ==
    /\ fetched' = fetched + 1 => (loading' /\ Unsettled' = Unsettled + 1)
    /\ Unsettled' < Unsettled => ~loading'

C5_SetOnStartClearedOnSettle == [][C5_Step]_vars

\* the second fetch was started while the first was out, and one has settled
C5_Witness ==
    /\ fetched = 2 /\ requests = 1 /\ Quiet
    /\ ~loading

\* C6: a failing fetch leaves trees as it was and clears loading.
C6_FailureKeepsTrees == [][FetchFail => (trees' = trees /\ ~loading')]_vars

\* a fetch has failed and the collection fetched by another one is held
C6_Witness ==
    /\ rejected > 0 /\ Len(trees) > 0
    /\ ~loading /\ Unsettled = 0

\* C7: a succeeding fetch makes trees the response's array, and when its
\* .finally has run trees is still that array and loading is false.
C7_Step ==
    /\ \A data \in Payloads : FetchThen(data) => trees' = data
    /\ FetchFinally => (trees' = chain.data /\ ~loading')

C7_SuccessReplacesTrees == [][C7_Step]_vars

\* two fetches succeeded: the first brought at least two trees (the second one
\* was resolved as the closest), the second brought a single tree
C7_Witness ==
    /\ fetched = 2 /\ rejected = 0 /\ Unsettled = 0
    /\ ~loading
    /\ cache # Undefined /\ cache.id = "B"
    /\ Len(trees) = 1

\* C8: locate_user without the geolocation capability ends with locatable
\* false, location as it was and no request issued.
C8_Step ==
    (~geolocation /\ located' = located + 1) =>
        (~locatable' /\ location' = location /\ watches' = watches)

C8_UnavailableNoRequest == [][C8_Step]_vars

\* locate_user has run on a device without the capability
C8_Witness ==
    /\ ~geolocation /\ located > 0
    /\ ~locatable /\ location = Placeholder /\ watches = 0

\* C9: a successful acquisition stores the reported latitude and longitude and
\* sets locatable in one step: whenever the flag rises or a coordinate changes,
\* the step ends with a complete reported coordinate and the flag set.
C9_Step ==
    /\ \A coords \in Location : GeoSuccess(coords) => (location' = coords /\ locatable')
    /\ (locatable' /\ ~locatable) => location' \in Location
    /\ location' # location => (locatable' /\ location' \in Location)

C9_FixStoredWhole == [][C9_Step]_vars

\* both acquisitions of the run have called back and a fix is held
C9_Witness ==
    /\ locatable /\ location \in Location
    /\ located = 2 /\ watches = 0

\* C10: a failing acquisition clears locatable and leaves location as it was.
C10_FailureKeepsLocation == [][GeoError => (~locatable' /\ location' = location)]_vars

\* an acquisition failed after an earlier one had succeeded: the fix is kept
C10_Witness ==
    /\ geolocation /\ ~locatable
    /\ location \in Location
    /\ watches = 0

\* the entity of ts nearest to loc, the first one among equally near ones
NearestOf(ts, loc) ==
    LET sq(t) == (t.location.longitude - loc.longitude) * (t.location.longitude - loc.longitude)
               + (t.location.latitude - loc.latitude) * (t.location.latitude - loc.latitude)
    IN  ts[CHOOSE i \in DOMAIN ts :
              \A j \in DOMAIN ts : sq(ts[i]) <= sq(ts[j]) /\ (j < i => sq(ts[j]) > sq(ts[i]))]

\* the store fields the resolver reads
holderFields == <<locatable, location, trees, loading>>

\* C11: locatable is false before any acquisition, and whenever it is true an
\* acquisition has succeeded earlier in the run.
C11_LocatableOnlyAfterFix ==
    /\ located = 0 => ~locatable
    /\ locatable => reported # <<>>

\* the flag is set while a second acquisition is still out
C11_Witness == locatable /\ reported # <<>> /\ watches = 1

\* C12: whenever closest_tree yields an entity, locatable is true and location
\* is the coordinate the latest successful acquisition reported.
C12_PlaceholderNeverUsed ==
    closest # Undefined => (locatable /\ reported = <<location>>)

\* an entity is resolved from a reported fix, read back from the cache
C12_Witness ==
    /\ closest # Undefined /\ ~dirty
    /\ reported = <<location>>
    /\ located = 1

\* C13: after one fetch_trees and one locate_user, closest_tree yields
\* undefined as long as either of them is unsettled, and once both have
\* succeeded with a non-empty response it yields the entity nearest to the
\* reported fix, a function of the response and the fix alone and so the same
\* in whichever order they settled.
C13_AnyCompletionOrder ==
    (fetched = 1 /\ located = 1) =>
        /\ (Unsettled > 0 \/ watches > 0) => closest = Undefined
        /\ (/\ Unsettled = 0 /\ watches = 0
            /\ rejected = 0 /\ outcome = "success"
            /\ Len(lastResponse) > 0)
                => closest = NearestOf(lastResponse, reported[1])

\* both have settled, the position first: the last evaluation ran while the
\* user was located and the fetch was still loading
C13_Witness ==
    /\ fetched = 1 /\ located = 1
    /\ Unsettled = 0 /\ watches = 0
    /\ deps = {"locatable", "loading"} /\ dirty
    /\ closest # Undefined

\* C14: reading closest_tree yields what an evaluation of the getter on the
\* current state of both stores yields: the cached value is never stale.
C14_NeverStale == closest = closest_tree

\* every fetch and acquisition of the run has written, and the entity is
\* read from the cache
C14_Witness ==
    /\ ~dirty /\ cache # Undefined
    /\ fetched = 2 /\ located = 2
    /\ Unsettled = 0 /\ watches = 0

\* C15: no fetch ends in a rejected promise nobody handles.
C15_NoRejectedPromise == rejected = 0

\* C16: a step of the tree store leaves locatable and location alone, a step
\* of the location store leaves trees and loading alone, and an evaluation of
\* closest_tree leaves all four alone.
C16_Step ==
    /\ <<fetched, requests, chain, rejected>>' # <<fetched, requests, chain, rejected>>
            => UNCHANGED <<locatable, location>>
    /\ <<located, watches>>' # <<located, watches>> => UNCHANGED <<trees, loading>>
    /\ (dirty /\ ~dirty') => UNCHANGED holderFields

C16_NoCrossWrite == [][C16_Step]_vars

\* both stores have work out and have been written, and the getter evaluated
C16_Witness ==
    /\ locatable /\ watches = 1
    /\ loading /\ requests = 1 /\ Len(trees) > 0
    /\ ~dirty

\* C17: once no fetch is unsettled, trees is the array of the successful
\* response that settled last, or the initial collection if none succeeded.
C17_LastResponseWins == Unsettled = 0 => trees = lastResponse

\* two fetches succeeded: the first brought trees (one was resolved), the
\* last one brought none
C17_Witness ==
    /\ fetched = 2 /\ rejected = 0 /\ Unsettled = 0
    /\ cache # Undefined
    /\ Len(lastResponse) = 0 /\ Len(trees) = 0

\* C18, as claimed: locatable is true if and only if an acquisition has
\* succeeded so far.
C18_LocatableIffEverFixed == locatable <=> reported # <<>>

\* C18, amended: locatable is true if and only if an acquisition has succeeded
\* and none has failed since the latest success.
C18_LocatableIffFixHeld == locatable <=> (reported # <<>> /\ outcome = "success")

\* a fix was obtained and a later acquisition failed
C18_Witness == ~locatable /\ reported # <<>> /\ outcome = "error"

\* C19: .then replaces trees and leaves loading as it is; until .finally runs
\* trees is the new array, and .finally clears loading over that array; and in
\* every state closest_tree yields undefined or an entity of the array of the
\* response handled last, never one of the collection held before it.
C19_Step ==
    /\ (chain.pc = "idle" /\ chain'.pc = "finally")
            => (trees' = chain'.data /\ loading' = loading)
    /\ chain.pc = "finally"
            => /\ trees = chain.data
               /\ chain'.pc = "idle" => (trees' = chain.data /\ ~loading')

C19_NothingOfTheOld ==
    closest # Undefined => \E i \in DOMAIN lastResponse : lastResponse[i] = closest

C19_ReplacedBeforeCleared == [][C19_Step]_vars /\ []C19_NothingOfTheOld

\* between .then and .finally: the new, shorter collection with loading still
\* true, and the entity resolved from the old collection in the cache
C19_Witness ==
    /\ chain.pc = "finally" /\ loading
    /\ trees = chain.data /\ Len(trees) = 1
    /\ cache # Undefined /\ cache.id = "B"

\* C20: closest_tree yields undefined or an element of the current trees.
C20_MemberOrUndefined ==
    closest = Undefined \/ \E i \in DOMAIN trees : trees[i] = closest

\* the evaluation to come selects the second tree
C20_Witness ==
    /\ dirty
    /\ Len(trees) = 2
    /\ closest = trees[2]
====
